---- MODULE Spec2Model ----
(***************************************************************************)
(* A model of the MultiAgentTrading utilities:                             *)
(*   - ExperienceReplay (src/utils/utils.py:8-32), a deque(maxlen) of      *)
(*     Experience namedtuples with add_experience / sample / __len__;      *)
(*   - plot_portfolio (src/utils/utils.py:95-143), the portfolio           *)
(*     simulator, one action per iteration of its for loop;               *)
(*   - the training loop of the DQN agent that run_dqn.py drives           *)
(*     (src/experiments/run_dqn.py:79-82); agents/dqn.py is not part of    *)
(*     the sources, so the loop follows the specification's Train steps    *)
(*     and calls the ExperienceReplay operations modelled from the code.   *)
(* Python floats are IEEE-754 doubles: every division and product is       *)
(* rounded to the nearest double; prices and balances are positive         *)
(* integers.                                                               *)
(***************************************************************************)
EXTENDS Integers, Sequences, FiniteSets, TLC

VARIABLES
    \* ---- ExperienceReplay ----
    buffer_size,      \* the maxlen the deque was built with (__init__)
    buffer,           \* self.buffer, oldest entry first
    n_added,          \* number of Experience objects appended so far
    inserted,         \* history: every Experience appended, in order
    last_call,        \* the most recent method call and its arguments
    raised,           \* the exception that call raised, or "none"
    returned,         \* the value that call returned, or NoValue
    picked,           \* the buffer positions random.sample selected
    \* ---- plot_portfolio ----
    close_prices,     \* data['Close'].values
    actions,          \* the actions argument
    initial_balance,  \* the initial_balance argument
    i,                \* number of loop iterations completed (next index, 0-based)
    portfolio_value,  \* the list being built
    own_share,        \* the own_share flag
    num_shares,       \* the num_shares local
    branch,           \* the if/elif branch the last iteration took
    sim_pc,           \* "idle", "loop", "returned", or the exception raised
    \* ---- Train ----
    batch_size,       \* hyperparameter batch_size
    target_update,    \* hyperparameter target_update (the sync period)
    sync_unit,        \* what target_update counts: "episodes" or "steps"
    n_episodes,       \* the number of episodes asked for
    n_steps,          \* hyperparameter n_steps, the step budget of an episode
    episode,          \* the current episode, from 1
    step,             \* steps completed in the current episode
    steps_done,       \* the global step counter
    ep_done,          \* the done flag of the latest environment step
    online,           \* the online network's parameters (a version number)
    target,           \* the target network's parameters (a version number)
    synced,           \* history: the online parameters at the latest sync
    n_syncs,          \* history: the number of hard syncs so far
    train_pc          \* "idle", "act", "learn", "advance", "done", "failed"

bufvars == <<buffer_size, buffer, n_added, inserted, last_call, raised,
             returned, picked>>
simvars == <<close_prices, actions, initial_balance, i, portfolio_value,
             own_share, num_shares, branch, sim_pc>>
trainvars == <<batch_size, target_update, sync_unit, n_episodes, n_steps,
               episode, step, steps_done, ep_done, online, target, synced,
               n_syncs, train_pc>>
vars == <<bufvars, simvars, trainvars>>

----------------------------------------------------------------------------
(* Bounds of the model *)

MaxCapacity == 2
MaxAdds == 4

(* Inputs *)

\* Argument tuples (state, action, next_state, reward) handed to
\* add_experience; every field takes at least two values.
Experiences ==
    { <<0, 0, 1, 1>>, <<1, 2, 0, -1>>, <<1, 1, 1, 0>>, <<0, 1, 0, 2>> }

\* An argument tuple that also carries a done flag.
ExperiencesWithDone == { <<0, 0, 1, 1, 1>> }

NoValue == [kind |-> "NoValue"]

----------------------------------------------------------------------------
(* ExperienceReplay *)

\* namedtuple('Experience', ('state', 'action', 'next_state', 'reward'))
NumFields == 4

\* self.transition(*args): the namedtuple constructor takes exactly
\* NumFields positional arguments.
TransitionAccepts(args) == Len(args) = NumFields

\* The Experience object built from args; id is the object's identity
\* (the ordinal of its insertion).
Transition(args, id) ==
    [id |-> id, state |-> args[1], action |-> args[2],
     next_state |-> args[3], reward |-> args[4]]

\* A namedtuple iterates as the tuple of its fields.
AsTuple(t) == <<t.state, t.action, t.next_state, t.reward>>

\* Mutant: the deque drops the newest entry instead of the oldest.
DequeAppendDropNewest(d, maxlen, x) ==
    LET a == Append(d, x)
    IN  IF Len(a) > maxlen THEN SubSeq(a, 1, Len(a) - 1) ELSE a

\* Mutant: a plain list, nothing is ever evicted.
DequeAppendUnbounded(d, maxlen, x) == Append(d, x)

\* deque(maxlen=...).append(x): append on the right, and when the deque
\* then exceeds maxlen, discard from the left.
DequeAppend(d, maxlen, x) ==
    LET a == Append(d, x)
    IN  IF Len(a) > maxlen THEN Tail(a) ELSE a

\* __len__
BufferLen == Len(buffer)

\* random.sample chooses k distinct positions of a population of n, in any
\* order.
SamplePositions(n, k) ==
    { p \in [1..k -> 1..n] : \A a, b \in 1..k : a # b => p[a] # p[b] }

\* random.sample rejects k outside 0..n with ValueError.
SampleAccepts(n, k) == 0 <= k /\ k <= n

\* The list random.sample returns for the chosen positions.
Select(population, p) == [j \in 1..Len(p) |-> population[p[j]]]

\* Mutant: the sampled entries are popped from the population.
PopulationAfterSampleDrained(population, p) ==
    LET kept == { b \in 1..Len(population) :
                    \A j \in 1..Len(p) : p[j] # b }
        F[n \in 0..Len(population)] ==
            IF n = 0 THEN <<>>
            ELSE IF n \in kept THEN Append(F[n - 1], population[n])
                 ELSE F[n - 1]
    IN  F[Len(population)]

\* random.sample only reads its population: the deque is the same after
\* the call, whether it returned or raised.
PopulationAfterSample(population, p) == population

\* random.sample(population, k): every outcome the call can have.
RandomSample(population, k) ==
    IF ~SampleAccepts(Len(population), k)
    THEN { [raised |-> "ValueError", picked |-> <<>>, samples |-> <<>>] }
    ELSE { [raised |-> "none", picked |-> p,
            samples |-> Select(population, p)] :
           p \in SamplePositions(Len(population), k) }

\* The exception a call sample(k, separate) on a population of n raises,
\* whichever positions random.sample picks: ValueError from random.sample,
\* TypeError from self.transition() when zip(*samples) has no columns.
SampleRaises(n, k, separate) ==
    IF ~SampleAccepts(n, k) THEN "ValueError"
    ELSE IF separate /\ k = 0 THEN "TypeError"
    ELSE "none"

\* The exception of every sample call is the one SampleRaises names.
SampleRaisesAgrees ==
    last_call.op = "sample" =>
        raised = SampleRaises(Len(buffer), last_call.batch_size,
                              last_call.separate)

\* zip(*samples): the columns of the sampled tuples; no columns at all for
\* an empty list.
ZipStar(samples) ==
    IF Len(samples) = 0
    THEN <<>>
    ELSE [f \in 1..NumFields |->
            [j \in 1..Len(samples) |-> AsTuple(samples[j])[f]]]

\* The separated form: an Experience whose fields are the columns.
Separated(cols) ==
    [kind |-> "Experience", state |-> cols[1], action |-> cols[2],
     next_state |-> cols[3], reward |-> cols[4]]

\* The list form of the return value.
ListOf(samples) == [kind |-> "list", items |-> samples]

BufferIdle ==
    /\ buffer_size = 0
    /\ buffer = <<>>
    /\ n_added = 0
    /\ inserted = <<>>
    /\ last_call = [op |-> "none"]
    /\ raised = "none"
    /\ returned = NoValue
    /\ picked = <<>>

\* ExperienceReplay(buffer_size=C)
Construct(C) ==
    /\ buffer_size = C
    /\ buffer = <<>>
    /\ n_added = 0
    /\ inserted = <<>>
    /\ last_call = [op |-> "__init__"]
    /\ raised = "none"
    /\ returned = NoValue
    /\ picked = <<>>

BufferInit == \E C \in 0..MaxCapacity : Construct(C)

\* The effect of add_experience(*args) on the buffer.
AddExperienceCall(args) ==
    /\ last_call' = [op |-> "add_experience", nargs |-> Len(args)]
    /\ picked' = <<>>
    /\ returned' = NoValue
    /\ IF TransitionAccepts(args)
       THEN /\ buffer' = DequeAppend(buffer, buffer_size,
                                     Transition(args, n_added + 1))
            /\ inserted' = Append(inserted, Transition(args, n_added + 1))
            /\ n_added' = n_added + 1
            /\ raised' = "none"
       ELSE /\ raised' = "TypeError"
            /\ UNCHANGED <<buffer, n_added, inserted>>
    /\ UNCHANGED buffer_size

\* add_experience(*args)
AddExperience ==
    \E args \in Experiences \cup ExperiencesWithDone :
        /\ n_added < MaxAdds
        /\ AddExperienceCall(args)
        /\ UNCHANGED <<simvars, trainvars>>

\* The effect of sample(k, separate) on the buffer and its outcome.
SampleCall(k, separate) ==
    \E o \in RandomSample(buffer, k) :
        LET cols == ZipStar(o.samples)
        IN  /\ last_call' = [op |-> "sample", batch_size |-> k,
                             separate |-> separate]
            /\ picked' = o.picked
            /\ IF o.raised # "none"
               THEN /\ raised' = o.raised
                    /\ returned' = NoValue
               ELSE IF separate
                    THEN IF TransitionAccepts(cols)
                         THEN /\ raised' = "none"
                              /\ returned' = Separated(cols)
                         ELSE /\ raised' = "TypeError"
                              /\ returned' = NoValue
                    ELSE /\ raised' = "none"
                         /\ returned' = ListOf(o.samples)
            /\ buffer' = PopulationAfterSample(buffer, o.picked)
            /\ UNCHANGED <<buffer_size, n_added, inserted>>

\* sample(batch_size, separate)
Sample ==
    \E k \in -1..(MaxCapacity + 1), separate \in BOOLEAN :
        /\ SampleCall(k, separate)
        /\ UNCHANGED <<simvars, trainvars>>

BufferNext == AddExperience \/ Sample

----------------------------------------------------------------------------
(* Properties of ExperienceReplay *)

\* C1: once more transitions have been inserted than the capacity, the
\* buffer holds exactly buffer_size transitions, they are the buffer_size
\* most recently inserted ones in insertion order, and none of the older
\* inserted transitions is still present.
C1_KeepsMostRecent ==
    n_added > buffer_size =>
        /\ Len(buffer) = buffer_size
        /\ buffer = SubSeq(inserted, n_added - buffer_size + 1, n_added)
        /\ \A j \in 1..(n_added - buffer_size) :
              \A b \in 1..Len(buffer) : buffer[b].id # inserted[j].id

\* C1 witness: a buffer of capacity at least 2 after at least two evictions.
C1_Witness ==
    /\ buffer_size >= 2
    /\ n_added >= buffer_size + 2
    /\ Len(buffer) = buffer_size
    /\ last_call.op = "add_experience"
    /\ raised = "none"

\* C2: len() is always between 0 and buffer_size.
C2_LenWithinCapacity == 0 <= BufferLen /\ BufferLen <= buffer_size

\* C2 witness: a full buffer that has already evicted, after a failing
\* sample call.
C2_Witness ==
    /\ buffer_size >= 1
    /\ BufferLen = buffer_size
    /\ n_added > buffer_size
    /\ last_call.op = "sample"
    /\ raised = "ValueError"

\* The entries a sample call returned, as field tuples, for either form of
\* the return value.
ReturnedTuples ==
    IF returned = NoValue THEN <<>>
    ELSE IF last_call.separate
         THEN [j \in 1..Len(returned.state) |->
                 <<returned.state[j], returned.action[j],
                   returned.next_state[j], returned.reward[j]>>]
         ELSE [j \in 1..Len(returned.items) |-> AsTuple(returned.items[j])]

\* C3, as claimed: after sample(k) with 0 <= k <= size the call has returned
\* exactly k entries, each one a stored transition, and no buffer position
\* was used twice.
C3_SampleReturnsKDistinct ==
    (last_call.op = "sample" /\ 0 <= last_call.batch_size
        /\ last_call.batch_size <= Len(buffer)) =>
        /\ raised = "none"
        /\ returned # NoValue
        /\ Len(ReturnedTuples) = last_call.batch_size
        /\ Len(picked) = last_call.batch_size
        /\ \A j \in 1..Len(picked) :
              /\ picked[j] \in 1..Len(buffer)
              /\ ReturnedTuples[j] = AsTuple(buffer[picked[j]])
        /\ \A a, b \in 1..Len(picked) : a # b => picked[a] # picked[b]

\* C3, what the code does satisfy: the same statement for every call other
\* than sample(0) in the separated form.
C3_HoldsForNonEmptyOrList ==
    (last_call.op = "sample"
        /\ (last_call.batch_size >= 1 \/ ~last_call.separate)) =>
        C3_SampleReturnsKDistinct

\* C4, as claimed: sample(k) with k above the current size raises
\* InsufficientDataError, returns nothing and leaves the buffer unchanged.
C4_RaisesInsufficientDataError ==
    [][(last_call'.op = "sample" /\ last_call'.batch_size > Len(buffer)) =>
          (/\ raised' = "InsufficientDataError"
           /\ returned' = NoValue
           /\ buffer' = buffer)]_vars

\* C4, what the code does instead: sample(k) with k above the current size
\* lets the ValueError of random.sample through, returns nothing and
\* leaves the buffer unchanged.
C4_RaisesValueError ==
    [][(last_call'.op = "sample" /\ last_call'.batch_size > Len(buffer)) =>
          (/\ raised' = "ValueError"
           /\ returned' = NoValue
           /\ picked' = <<>>
           /\ buffer' = buffer)]_vars

\* A non-empty buffer after a sample call that asked for more
\* than it holds.
C4_Witness ==
    /\ last_call.op = "sample"
    /\ Len(buffer) >= 1
    /\ last_call.batch_size > Len(buffer)
    /\ raised = "ValueError"
    /\ returned = NoValue

\* The field names of a stored transition and of a separated batch.
FieldsOf(r) == DOMAIN r \ {"id", "kind"}

\* A successful sample call in the separated form has just returned.
SeparatedReturned ==
    /\ last_call.op = "sample"
    /\ last_call.separate
    /\ raised = "none"
    /\ returned.kind = "Experience"

\* C12, as claimed: a stored transition has the five fields state, action,
\* next_state, reward, done, and the separated form returns five sequences
\* of length batch_size, among them the done flags.
C12_FiveAlignedSequences ==
    /\ \A b \in 1..Len(buffer) :
          FieldsOf(buffer[b]) =
              {"state", "action", "next_state", "reward", "done"}
    /\ SeparatedReturned =>
          /\ FieldsOf(returned) =
                {"state", "action", "next_state", "reward", "done"}
          /\ \A f \in FieldsOf(returned) :
                Len(returned[f]) = last_call.batch_size

\* C12, what the code does instead: a stored transition has only the four
\* fields state, action, next_state, reward, and a separated batch is four
\* sequences of length batch_size whose j-th elements are the fields of one
\* stored transition, the one at the j-th sampled position.
C12_FourAlignedSequences ==
    /\ \A b \in 1..Len(buffer) :
          FieldsOf(buffer[b]) = {"state", "action", "next_state", "reward"}
    /\ SeparatedReturned =>
          /\ FieldsOf(returned) = {"state", "action", "next_state", "reward"}
          /\ \A f \in FieldsOf(returned) :
                Len(returned[f]) = last_call.batch_size
          /\ Len(picked) = last_call.batch_size
          /\ \A j \in 1..last_call.batch_size :
                /\ picked[j] \in 1..Len(buffer)
                /\ \A f \in FieldsOf(returned) :
                      returned[f][j] = buffer[picked[j]][f]

\* A separated batch of two transitions that differ in every
\* field, returned in the reverse of the buffer's order.
C12_Witness ==
    /\ SeparatedReturned
    /\ last_call.batch_size = 2
    /\ picked = <<2, 1>>
    /\ \A f \in FieldsOf(returned) : returned[f][1] # returned[f][2]

\* C15: a sample call, in either form and whether it returns or raises,
\* leaves the buffer as it was; and every stored transition is identical to
\* what it was when it was inserted, for as long as it stays in the buffer.
C15_StoredTransitionsNeverChange ==
    /\ [][last_call'.op = "sample" => buffer' = buffer]_vars
    /\ [][\A b \in 1..Len(buffer) :
            (\E c \in 1..Len(buffer') : buffer'[c].id = buffer[b].id) =>
            (\E c \in 1..Len(buffer') : buffer'[c] = buffer[b])]_vars
    /\ [](\A b \in 1..Len(buffer) :
            /\ buffer[b].id \in 1..Len(inserted)
            /\ buffer[b] = inserted[buffer[b].id])

\* C15 witness: a sample call has returned a batch from a full buffer that
\* has already evicted an entry.
C15_Witness ==
    /\ last_call.op = "sample"
    /\ raised = "none"
    /\ Len(picked) >= 1
    /\ Len(buffer) = buffer_size
    /\ n_added > buffer_size
    /\ buffer = SubSeq(inserted, n_added - buffer_size + 1, n_added)

----------------------------------------------------------------------------
(* plot_portfolio *)

MaxLen == 4

\* Close prices and balances the simulator is run on.
Prices == {100, 110}
Balances == {1000, 500}

\* Action codes: BUY, HOLD, SELL.
BUY == 0
HOLD == 1
SELL == 2
ActionCodes == {BUY, HOLD, SELL}

SeqsUpTo(S, n) == UNION { [1..m -> S] : m \in 0..n }

\* Python's float arithmetic: IEEE-754 binary64, every operation rounded to
\* the nearest double, ties to even. A value is the record
\* [sign, m, e] standing for sign * m * 2^e, where m is an integer of exactly
\* MantissaBits bits written as a sequence of limbs in base LimbBase, most
\* significant limb first; zero is sign 0 with an all-zero m. Prices are
\* positive integers below LimbBase / 2 and the values stay far from the
\* overflow and subnormal ranges.
MantissaBits == 53
LimbBits == 15
LimbBase == 2^LimbBits

\* A limb sequence without its leading zero limbs.
RECURSIVE Strip(_)
Strip(a) == IF Len(a) > 1 /\ a[1] = 0 THEN Strip(Tail(a)) ELSE a

\* The number of bits of a non-negative integer, and of a limb sequence.
RECURSIVE BitsOf(_)
BitsOf(n) == IF n = 0 THEN 0 ELSE 1 + BitsOf(n \div 2)
BitLen(a) == LimbBits * (Len(Strip(a)) - 1) + BitsOf(Strip(a)[1])

\* a * p for a limb sequence a and an integer 0 < p <= LimbBase.
MulSmall(a, p) ==
    LET F[k \in 0..Len(a)] ==
            IF k = 0 THEN [d |-> <<>>, c |-> 0]
            ELSE LET t == a[Len(a) - k + 1] * p + F[k - 1].c
                 IN  [d |-> <<t % LimbBase>> \o F[k - 1].d,
                      c |-> t \div LimbBase]
    IN  Strip(<<F[Len(a)].c \div LimbBase, F[Len(a)].c % LimbBase>>
              \o F[Len(a)].d)

\* Quotient q and remainder r of a limb sequence a by an integer
\* 0 < p <= LimbBase.
DivSmall(a, p) ==
    LET F[k \in 0..Len(a)] ==
            IF k = 0 THEN [q |-> <<>>, r |-> 0]
            ELSE LET t == F[k - 1].r * LimbBase + a[k]
                 IN  [q |-> Append(F[k - 1].q, t \div p), r |-> t % p]
    IN  [q |-> Strip(F[Len(a)].q), r |-> F[Len(a)].r]

\* a + 1 for a limb sequence a.
AddOne(a) ==
    LET F[k \in 0..Len(a)] ==
            IF k = 0 THEN [d |-> <<>>, c |-> 1]
            ELSE LET t == a[Len(a) - k + 1] + F[k - 1].c
                 IN  [d |-> <<t % LimbBase>> \o F[k - 1].d,
                      c |-> t \div LimbBase]
    IN  Strip(<<F[Len(a)].c>> \o F[Len(a)].d)

\* a * 2^k for k >= 0.
ShiftLeft(a, k) ==
    MulSmall(a, 2^(k % LimbBits)) \o [j \in 1..(k \div LimbBits) |-> 0]

\* The double nearest to sign * (a + f) * 2^e, where a is a non-zero limb
\* sequence of at most MantissaBits + LimbBits bits and 0 <= f < 1 is a
\* fraction known only as zero (sticky = FALSE) or non-zero (sticky = TRUE):
\* the bits below the mantissa are cut off and the result is rounded to
\* nearest, ties to even.
RoundToDouble(sign, a, sticky, e) ==
    LET len == BitLen(a)
        s == len - MantissaBits
        d == DivSmall(a, 2^s)
        half == 2^(s - 1)
        odd == d.q[Len(d.q)] % 2 = 1
        up == \/ d.r > half
              \/ d.r = half /\ (sticky \/ odd)
        r == IF up THEN AddOne(d.q) ELSE d.q
    IN  IF s <= 0
        THEN [sign |-> sign, m |-> ShiftLeft(Strip(a), 0 - s), e |-> e + s]
        ELSE IF BitLen(r) > MantissaBits
             THEN [sign |-> sign, m |-> DivSmall(r, 2).q, e |-> e + s + 1]
             ELSE [sign |-> sign, m |-> r, e |-> e + s]

\* The double 0.0 (and the int 0 num_shares starts as: 0 == 0.0 in Python).
Zero == [sign |-> 0, m |-> [j \in 1..4 |-> 0], e |-> 0]

\* A non-negative integer below LimbBase^2 as a double (exact).
Num(n) ==
    IF n = 0 THEN Zero
    ELSE RoundToDouble(1, <<n \div LimbBase, n % LimbBase>>, FALSE, 0)

\* v / p for a double v and a positive integer price p (Python's true
\* division): the quotient of m * 2^LimbBits by p, with the remainder as the
\* sticky fraction, rounded to a double.
TrueDiv(v, p) ==
    IF v.sign = 0 THEN Zero
    ELSE LET d == DivSmall(Append(v.m, 0), p)
         IN  RoundToDouble(v.sign, d.q, d.r # 0, v.e - LimbBits)

\* s * p for a double s and a positive integer price p: the exact product
\* rounded to a double.
Times(s, p) ==
    IF s.sign = 0 THEN Zero
    ELSE RoundToDouble(s.sign, MulSmall(s.m, p), FALSE, s.e)

IsZero(v) == v.sign = 0
IsPositive(v) == v.sign = 1
IsNegative(v) == v.sign = -1

\* portfolio_value[-1]
Last(s) == s[Len(s)]

\* close_prices[j] for a 0-based index j; numpy raises IndexError outside
\* the array.
InBounds(j) == j < Len(close_prices)
PriceAt(j) == close_prices[j + 1]

\* The 0-based loop index and the action of the pending iteration.
Pending == sim_pc = "loop" /\ i < Len(actions)
action == actions[i + 1]

\* Mutant: the look-ahead test is dropped, every step values the next price.
NotLastIndexIgnored == TRUE

\* Mutant: the bound of the look-ahead test is off by one.
NotLastIndexOffByOne == i < Len(actions)

\* i < len(actions) - 1
NotLastIndex == i < Len(actions) - 1

SimIdle ==
    /\ close_prices = <<>>
    /\ actions = <<>>
    /\ initial_balance = 0
    /\ i = 0
    /\ portfolio_value = <<>>
    /\ own_share = FALSE
    /\ num_shares = Num(0)
    /\ branch = "none"
    /\ sim_pc = "idle"

\* The call plot_portfolio(data, actions, initial_balance).
SimInit ==
    /\ close_prices \in SeqsUpTo(Prices, MaxLen)
    /\ actions \in SeqsUpTo(ActionCodes, MaxLen)
    /\ initial_balance \in Balances
    /\ i = 0
    /\ portfolio_value = <<>>
    /\ own_share = FALSE
    /\ num_shares = Num(0)
    /\ branch = "none"
    /\ sim_pc = "call"

\* Lines 105-112: the locals are set up; the length assertion is commented
\* out, so nothing is validated.
Enter ==
    /\ sim_pc = "call"
    /\ portfolio_value' = <<Num(initial_balance)>>
    /\ own_share' = FALSE
    /\ num_shares' = Num(0)
    /\ sim_pc' = "loop"
    /\ UNCHANGED <<close_prices, actions, initial_balance, i, branch, bufvars,
                   trainvars>>

\* Which if/elif branch the pending iteration takes.
TakesBuy == action = BUY /\ IsZero(num_shares)

\* Mutant: the sell branch does not test that shares are held.
TakesSellWithoutShares == action = SELL

TakesSell == action = SELL /\ IsPositive(num_shares)
TakesCarry == (action = BUY \/ action = HOLD) /\ IsPositive(num_shares)
TakesCash == (action = SELL \/ action = HOLD) /\ IsZero(num_shares)

\* Mutant: every purchase spends the initial balance, not the current value.
SharesBoughtWithInitialBalance(j) ==
    TrueDiv(Num(initial_balance), PriceAt(j))

\* The number of shares bought with the whole current value at index j.
SharesBought(j) == TrueDiv(Last(portfolio_value), PriceAt(j))

\* Mutant: the position is liquidated at the previous index's price.
SellValueAtPrevious(j) == Times(num_shares, PriceAt(j - 1))

\* The value appended when a position is sold at index j.
SellValue(j) == Times(num_shares, PriceAt(j))

\* Mutant: an open position is valued at the current price, not the next.
CarryValueAtCurrent(shares, j) == Times(shares, PriceAt(j))

\* The value appended when a position of shares is carried from index j.
CarryValue(shares, j) == Times(shares, PriceAt(j + 1))

\* if action == 0 and num_shares == 0
StepBuy ==
    /\ Pending
    /\ TakesBuy
    /\ branch' = "buy"
    /\ own_share' = TRUE
    /\ IF ~InBounds(i)
       THEN /\ sim_pc' = "IndexError"
            /\ UNCHANGED <<num_shares, portfolio_value, i>>
       ELSE /\ num_shares' = SharesBought(i)
            /\ IF NotLastIndex
               THEN IF ~InBounds(i + 1)
                    THEN /\ sim_pc' = "IndexError"
                         /\ UNCHANGED <<portfolio_value, i>>
                    ELSE /\ portfolio_value' =
                              Append(portfolio_value,
                                     CarryValue(SharesBought(i), i))
                         /\ i' = i + 1
                         /\ UNCHANGED sim_pc
               ELSE /\ i' = i + 1
                    /\ UNCHANGED <<portfolio_value, sim_pc>>
    /\ UNCHANGED <<close_prices, actions, initial_balance, bufvars, trainvars>>

\* elif action == 2 and num_shares > 0
StepSell ==
    /\ Pending
    /\ ~TakesBuy
    /\ TakesSell
    /\ branch' = "sell"
    /\ own_share' = FALSE
    /\ IF ~InBounds(i)
       THEN /\ sim_pc' = "IndexError"
            /\ UNCHANGED <<num_shares, portfolio_value, i>>
       ELSE /\ portfolio_value' = Append(portfolio_value, SellValue(i))
            /\ num_shares' = Num(0)
            /\ i' = i + 1
            /\ UNCHANGED sim_pc
    /\ UNCHANGED <<close_prices, actions, initial_balance, bufvars, trainvars>>

\* elif (action == 0 or action == 1) and num_shares > 0
StepCarry ==
    /\ Pending
    /\ ~TakesBuy
    /\ ~TakesSell
    /\ TakesCarry
    /\ branch' = "carry"
    /\ IF NotLastIndex
       THEN IF ~InBounds(i + 1)
            THEN /\ sim_pc' = "IndexError"
                 /\ UNCHANGED <<portfolio_value, i>>
            ELSE /\ portfolio_value' =
                      Append(portfolio_value, CarryValue(num_shares, i))
                 /\ i' = i + 1
                 /\ UNCHANGED sim_pc
       ELSE /\ i' = i + 1
            /\ UNCHANGED <<portfolio_value, sim_pc>>
    /\ UNCHANGED <<close_prices, actions, initial_balance, own_share,
                   num_shares, bufvars, trainvars>>

\* elif (action == 2 or action == 1) and num_shares == 0
StepCash ==
    /\ Pending
    /\ ~TakesBuy
    /\ ~TakesSell
    /\ ~TakesCarry
    /\ TakesCash
    /\ branch' = "cash"
    /\ portfolio_value' = Append(portfolio_value, Last(portfolio_value))
    /\ i' = i + 1
    /\ UNCHANGED <<close_prices, actions, initial_balance, own_share,
                   num_shares, sim_pc, bufvars, trainvars>>

\* Lines 140-143: the loop is over; plot and return portfolio_value.
Return ==
    /\ sim_pc = "loop"
    /\ i = Len(actions)
    /\ sim_pc' = "returned"
    /\ UNCHANGED <<close_prices, actions, initial_balance, i, portfolio_value,
                   own_share, num_shares, branch, bufvars, trainvars>>

SimNext == Enter \/ StepBuy \/ StepSell \/ StepCarry \/ StepCash \/ Return

----------------------------------------------------------------------------
(* Properties of plot_portfolio *)

SameLength == Len(actions) = Len(close_prices)

\* The simulator has stopped, by returning or by raising.
Stopped == sim_pc \notin {"idle", "call", "loop"}

\* C5, as claimed: a call whose action and price sequences differ in length
\* is rejected (the claim names InvalidInputError); it never returns a
\* trajectory.
C5_MismatchRejected == ~SameLength => sim_pc # "returned"

\* The round trip of C6: prices [100, 110], balance 1000, BUY then SELL.
RoundTripInput ==
    /\ close_prices = <<100, 110>>
    /\ actions = <<BUY, SELL>>
    /\ initial_balance = 1000

\* C6, as claimed: the round trip returns [1000, 1100] and ends flat.
C6_RoundTripTwoEntries ==
    (RoundTripInput /\ Stopped) =>
        /\ sim_pc = "returned"
        /\ portfolio_value = <<Num(1000), Num(1100)>>
        /\ ~own_share
        /\ IsZero(num_shares)

\* C6, amended: the round trip returns [1000, 1100, 1100] (the SELL appends
\* the liquidation value after the BUY appended the same valuation) and
\* ends flat.
C6_RoundTripThreeEntries ==
    (RoundTripInput /\ Stopped) =>
        /\ sim_pc = "returned"
        /\ portfolio_value = <<Num(1000), Num(1100), Num(1100)>>
        /\ ~own_share
        /\ IsZero(num_shares)

\* C6 witness: the round trip has returned.
C6_Witness == RoundTripInput /\ sim_pc = "returned" /\ branch = "sell"

\* C7: a SELL step taken while shares are held appends num_shares * p_i (the
\* price at the step's own index) and leaves no position and no shares.
C7_SellLiquidatesAtCurrentPrice ==
    [][(Pending /\ action = SELL /\ IsPositive(num_shares)) =>
          (/\ sim_pc' = "loop"
           /\ i' = i + 1
           /\ InBounds(i)
           /\ portfolio_value' =
                 Append(portfolio_value, Times(num_shares, close_prices[i + 1]))
           /\ own_share' = FALSE
           /\ num_shares' = Num(0))]_vars

\* C7 witness: a SELL has just liquidated a position bought at another
\* price.
C7_Witness ==
    /\ branch = "sell"
    /\ sim_pc = "loop"
    /\ ~own_share
    /\ IsZero(num_shares)
    /\ i >= 2
    /\ close_prices[i] # close_prices[i - 1]
    /\ Last(portfolio_value) # Num(initial_balance)

\* C8: for sequences of the same length, a BUY step taken with no shares
\* turns the whole current value into shares at p_i, sets own_share, and
\* appends shares * p_(i+1) when index i+1 exists; at the final index it
\* appends nothing.
C8_BuyConvertsWholeValue ==
    [][(SameLength /\ Pending /\ action = BUY /\ IsZero(num_shares)) =>
          (/\ sim_pc' = "loop"
           /\ i' = i + 1
           /\ num_shares' =
                 TrueDiv(Last(portfolio_value), close_prices[i + 1])
           /\ own_share' = TRUE
           /\ IF i + 1 < Len(close_prices)
              THEN portfolio_value' =
                      Append(portfolio_value,
                             Times(num_shares', close_prices[i + 2]))
              ELSE portfolio_value' = portfolio_value)]_vars

\* C8 witness: a BUY has acted on a value that a previous round trip
\* changed, at an index that is not the last.
C8_Witness ==
    /\ SameLength
    /\ branch = "buy"
    /\ sim_pc = "loop"
    /\ own_share
    /\ i >= 3
    /\ Len(portfolio_value) = i + 1
    /\ portfolio_value[i] # Num(initial_balance)

\* C8 witness at the final index: a BUY that appended nothing.
C8_WitnessFinalIndex ==
    /\ SameLength
    /\ branch = "buy"
    /\ sim_pc = "returned"
    /\ own_share
    /\ Len(portfolio_value) = Len(actions)

\* C9, as claimed: a BUY or HOLD step taken while shares are held keeps
\* own_share true and num_shares unchanged, and appends num_shares * p_(i+1)
\* when the price at index i+1 exists; otherwise it appends nothing.
C9_CarryKeepsPosition ==
    [][(Pending /\ (action = BUY \/ action = HOLD)
            /\ IsPositive(num_shares)) =>
          (/\ sim_pc' = "loop"
           /\ i' = i + 1
           /\ own_share' = TRUE
           /\ num_shares' = num_shares
           /\ IF i + 1 < Len(close_prices)
              THEN portfolio_value' =
                      Append(portfolio_value,
                             Times(num_shares, close_prices[i + 2]))
              ELSE portfolio_value' = portfolio_value)]_vars

\* C9, what the code does satisfy: the same statement for action and price
\* sequences of the same length.
C9_HoldsForSameLength ==
    [][(SameLength /\ Pending /\ (action = BUY \/ action = HOLD)
            /\ IsPositive(num_shares)) =>
          (/\ sim_pc' = "loop"
           /\ i' = i + 1
           /\ own_share' = TRUE
           /\ num_shares' = num_shares
           /\ IF i + 1 < Len(close_prices)
              THEN portfolio_value' =
                      Append(portfolio_value,
                             Times(num_shares, close_prices[i + 2]))
              ELSE portfolio_value' = portfolio_value)]_vars

\* A repeated BUY has been carried at the final index.
C9_Witness ==
    /\ SameLength
    /\ branch = "carry"
    /\ sim_pc = "returned"
    /\ Len(actions) >= 2
    /\ actions[Len(actions)] = BUY
    /\ own_share
    /\ IsPositive(num_shares)
    /\ Len(portfolio_value) = Len(actions)

\* C10: when the actions contain no BUY, whatever the prices, every entry
\* of the trajectory equals initial_balance, no position is ever held, and
\* the call returns one entry per action after the first.
C10_NoBuyKeepsBalance ==
    ((\A j \in 1..Len(actions) : actions[j] # BUY) /\ sim_pc # "call") =>
        /\ sim_pc \in {"loop", "returned"}
        /\ Len(portfolio_value) = i + 1
        /\ \A j \in 1..Len(portfolio_value) :
              portfolio_value[j] = Num(initial_balance)
        /\ ~own_share
        /\ IsZero(num_shares)

\* C10 witness: a returned run over a mix of HOLD and SELL.
C10_Witness ==
    /\ sim_pc = "returned"
    /\ Len(actions) >= 2
    /\ \A j \in 1..Len(actions) : actions[j] # BUY
    /\ \E j \in 1..Len(actions) : actions[j] = SELL
    /\ \E j \in 1..Len(actions) : actions[j] = HOLD
    /\ Len(portfolio_value) = Len(actions) + 1

\* The input of C11: one price, the single action BUY.
SingleBuyInput == Len(close_prices) = 1 /\ actions = <<BUY>>

\* C11: a BUY step at the final index of the actions never appends a value,
\* and on a 1-length price series with actions [BUY] the call returns
\* [initial_balance] while holding initial_balance / p_0 shares.
C11_FinalBuyAppendsNothing ==
    /\ [][(Pending /\ action = BUY /\ i = Len(actions) - 1) =>
             portfolio_value' = portfolio_value]_vars
    /\ [](SingleBuyInput /\ Stopped =>
             /\ sim_pc = "returned"
             /\ portfolio_value = <<Num(initial_balance)>>
             /\ own_share
             /\ num_shares = TrueDiv(Num(initial_balance), close_prices[1]))

\* C11 witness: the call on one price with actions [BUY] has returned.
C11_Witness ==
    /\ SingleBuyInput
    /\ sim_pc = "returned"
    /\ branch = "buy"
    /\ Len(portfolio_value) = 1
    /\ IsPositive(num_shares)

\* C16: for sequences of the same length, a SELL step taken while shares
\* are held appends a copy of the trajectory's last entry: the step before
\* already valued the position at p_i, so the value does not change.
C16_SellAppendsDuplicate ==
    [][(SameLength /\ Pending /\ action = SELL /\ IsPositive(num_shares)) =>
          (/\ portfolio_value' =
                 Append(portfolio_value, Last(portfolio_value))
           /\ Last(portfolio_value) =
                 Times(num_shares, close_prices[i + 1]))]_vars

\* C16 witness: a SELL has appended a copy of a value that differs from
\* the initial balance.
C16_Witness ==
    /\ SameLength
    /\ branch = "sell"
    /\ sim_pc \in {"loop", "returned"}
    /\ Len(portfolio_value) >= 3
    /\ Last(portfolio_value) = portfolio_value[Len(portfolio_value) - 1]
    /\ Last(portfolio_value) # Num(initial_balance)

\* The step at hand is at the final index and leaves a position open.
FinalStepLeavesPosition ==
    /\ i = Len(actions) - 1
    /\ \/ action = BUY
       \/ action = HOLD /\ IsPositive(num_shares)

\* C17: for n >= 1 actions and as many prices, every step appends exactly
\* one value, except a final-index step that leaves a position open, which
\* appends none; the returned trajectory has n + 1 entries when the run
\* ends with no position and n entries when it ends holding one.
C17_TrajectoryLength ==
    /\ [][(SameLength /\ Pending) =>
             (/\ sim_pc' = "loop"
              /\ i' = i + 1
              /\ Len(portfolio_value') =
                    IF FinalStepLeavesPosition
                    THEN Len(portfolio_value)
                    ELSE Len(portfolio_value) + 1)]_vars
    /\ []((SameLength /\ Len(actions) >= 1 /\ Stopped) =>
             (/\ sim_pc = "returned"
              /\ Len(portfolio_value) =
                    IF own_share THEN Len(actions) ELSE Len(actions) + 1))

\* C17 witness: a run of at least three steps has returned while holding a
\* position, with as many entries as actions.
C17_Witness ==
    /\ SameLength
    /\ Len(actions) >= 3
    /\ sim_pc = "returned"
    /\ own_share
    /\ Len(portfolio_value) = Len(actions)
    /\ \E j \in 1..Len(actions) : actions[j] = SELL

\* C17 witness for the other case: a run has returned with no position.
C17_WitnessFlat ==
    /\ SameLength
    /\ Len(actions) >= 3
    /\ sim_pc = "returned"
    /\ ~own_share
    /\ branch = "sell"
    /\ Len(portfolio_value) = Len(actions) + 1

\* C18: once the locals are set up and after every completed step, own_share
\* is true exactly when num_shares > 0 and false exactly when
\* num_shares = 0, num_shares is never negative and every entry of the
\* trajectory is strictly positive.
C18_FlagAgreesWithShares ==
    sim_pc \in {"loop", "returned"} =>
        /\ own_share = IsPositive(num_shares)
        /\ ~own_share = IsZero(num_shares)
        /\ ~IsNegative(num_shares)
        /\ \A j \in 1..Len(portfolio_value) : IsPositive(portfolio_value[j])

\* C18 witness: a position is held again after a round trip.
C18_Witness ==
    /\ sim_pc = "loop"
    /\ branch = "buy"
    /\ own_share
    /\ IsPositive(num_shares)
    /\ \E j \in 1..i : actions[j] = SELL
    /\ Len(portfolio_value) >= 4

----------------------------------------------------------------------------
(* Train: the agent's training loop *)

\* The hyperparameters run_dqn.py configures and the number of episodes it
\* trains for.
hyperparams_buffer_size == 20
hyperparams_batch_size == 10
hyperparams_target_update == 5
hyperparams_n_steps == 10
train_n_episodes == 10

\* The run of run_dqn.py.
ConfiguredRun ==
    [buffer_size |-> hyperparams_buffer_size,
     batch_size |-> hyperparams_batch_size,
     target_update |-> hyperparams_target_update,
     n_steps |-> hyperparams_n_steps,
     n_episodes |-> train_n_episodes]

\* Runs with small hyperparameters: every capacity up to MaxCapacity against
\* every batch size from 0 to one above it, sync periods and run lengths
\* 1, 2.
ScaledRuns ==
    [buffer_size : 0..MaxCapacity,
     batch_size : 0..(MaxCapacity + 1),
     target_update : {1, 2},
     n_steps : {1, 2},
     n_episodes : {1, 2}]

\* The runs the loop is checked for.
Runs == ScaledRuns \cup {ConfiguredRun}

SyncUnits == {"episodes", "steps"}

\* The state, action, next_state and reward the environment yields at
\* global step t. Their content plays no part in the loop's control flow;
\* successive steps yield different tuples.
Observed(t) == <<t % 2, t % 3, (t + 1) % 2, (t % 3) - 1>>

\* The transition of step 3: (state, action, next_state, reward, done).
ObservedWithDone(t, d) == Append(Observed(t), IF d THEN 1 ELSE 0)

\* The argument lists add_experience may be called with at global step t:
\* the five-field transition of step 3, which the Experience namedtuple
\* rejects, and the four fields the namedtuple has. The calling code
\* (agents/dqn.py) is not part of the sources, so either call can be the
\* one it makes.
StoreArgs(t, d) == {ObservedWithDone(t, d), Observed(t)}

TrainIdle ==
    /\ batch_size = 0
    /\ target_update = 0
    /\ sync_unit = "none"
    /\ n_episodes = 0
    /\ n_steps = 0
    /\ episode = 0
    /\ step = 0
    /\ steps_done = 0
    /\ ep_done = FALSE
    /\ online = 0
    /\ target = 0
    /\ synced = 0
    /\ n_syncs = 0
    /\ train_pc = "idle"

\* DQN(config) followed by train(n_episodes): the buffer is built with
\* buffer_size, the target network starts as a copy of the online network,
\* and the first episode's environment has been reset.
TrainInit(run) ==
    /\ batch_size = run.batch_size
    /\ target_update = run.target_update
    /\ sync_unit \in SyncUnits
    /\ n_episodes = run.n_episodes
    /\ n_steps = run.n_steps
    /\ episode = 1
    /\ step = 0
    /\ steps_done = 0
    /\ ep_done = FALSE
    /\ online = 0
    /\ target = 0
    /\ synced = 0
    /\ n_syncs = 0
    /\ train_pc = "act"

\* Steps 1 to 3: an action is selected, the environment is stepped, and the
\* resulting transition is stored with add_experience. A TypeError raised
\* by add_experience ends the training.
TrainStore ==
    /\ train_pc = "act"
    /\ \E d \in BOOLEAN :
          \E args \in StoreArgs(steps_done, d) :
              /\ AddExperienceCall(args)
              /\ ep_done' = d
    /\ train_pc' = IF raised' = "none" THEN "learn" ELSE "failed"
    /\ UNCHANGED <<batch_size, target_update, sync_unit, n_episodes, n_steps,
                   episode, step, steps_done, online, target, synced,
                   n_syncs, simvars>>

\* Step 4's test: buffer occupancy >= batch size.
ShouldLearn == BufferLen >= batch_size

\* Mutant: the target network shares the online network's storage, so the
\* optimizer moves it too.
TargetAfterOptimizeAliased(tgt, new_online) == new_online

\* The target network's parameters after an optimization step that left
\* the online network at new_online: gradient descent never touches them.
TargetAfterOptimize(tgt, new_online) == tgt

\* Step 4 with enough data: one batch is sampled in the separated form and
\* one optimization step, which consumes the batch, changes the online
\* network. The batch is local to the step: which positions were drawn has
\* no effect on the loop, and neither picked nor returned keeps it. An
\* exception raised by sample ends the training.
TrainOptimize ==
    /\ train_pc = "learn"
    /\ ShouldLearn
    /\ last_call' = [op |-> "sample", batch_size |-> batch_size,
                     separate |-> TRUE]
    /\ raised' = SampleRaises(Len(buffer), batch_size, TRUE)
    /\ picked' = <<>>
    /\ returned' = NoValue
    /\ buffer' = PopulationAfterSample(buffer, <<>>)
    /\ UNCHANGED <<buffer_size, n_added, inserted>>
    /\ IF raised' = "none"
       THEN /\ online' = online + 1
            /\ target' = TargetAfterOptimize(target, online + 1)
            /\ train_pc' = "advance"
       ELSE /\ train_pc' = "failed"
            /\ UNCHANGED <<online, target>>
    /\ UNCHANGED <<batch_size, target_update, sync_unit, n_episodes, n_steps,
                   episode, step, steps_done, ep_done, synced, n_syncs,
                   simvars>>

\* Step 4 without enough data: the update is skipped.
TrainSkip ==
    /\ train_pc = "learn"
    /\ ~ShouldLearn
    /\ train_pc' = "advance"
    /\ UNCHANGED <<batch_size, target_update, sync_unit, n_episodes, n_steps,
                   episode, step, steps_done, ep_done, online, target,
                   synced, n_syncs, bufvars, simvars>>

\* The episode ends with the step at hand: done, or the budget is used up.
EpisodeEnds == ep_done \/ step + 1 >= n_steps

\* Step 5's test: the sync period has elapsed, counted in the chosen unit.
SyncDue ==
    IF sync_unit = "steps"
    THEN (steps_done + 1) % target_update = 0
    ELSE EpisodeEnds /\ episode % target_update = 0

\* Steps 5 and 6: the target network is hard-synced when due, the step
\* counters advance, and the episode or the whole training ends.
TrainAdvance ==
    /\ train_pc = "advance"
    /\ IF SyncDue
       THEN /\ target' = online
            /\ synced' = online
            /\ n_syncs' = n_syncs + 1
       ELSE UNCHANGED <<target, synced, n_syncs>>
    /\ steps_done' = steps_done + 1
    /\ IF EpisodeEnds
       THEN IF episode = n_episodes
            THEN /\ train_pc' = "done"
                 /\ UNCHANGED <<episode, step>>
            ELSE /\ train_pc' = "act"
                 /\ episode' = episode + 1
                 /\ step' = 0
       ELSE /\ train_pc' = "act"
            /\ step' = step + 1
            /\ UNCHANGED episode
    /\ UNCHANGED <<batch_size, target_update, sync_unit, n_episodes, n_steps,
                   ep_done, online, bufvars, simvars>>

TrainNext == TrainStore \/ TrainOptimize \/ TrainSkip \/ TrainAdvance

----------------------------------------------------------------------------
(* Properties of Train *)

C13_Witness ==
    /\ train_pc = "advance"
    /\ last_call.op = "sample"
    /\ raised = "none"
    /\ batch_size >= 2
    /\ Len(buffer) = batch_size
    /\ steps_done >= 1
    /\ online = 1

\* The skipped update: the training has ended without ever
\* sampling, the batch size being above the capacity.
C13_WitnessSkipped ==
    /\ train_pc = "done"
    /\ batch_size > buffer_size
    /\ steps_done >= 2
    /\ online = 0
    /\ last_call.op = "add_experience"

\* The configured run: a batch of hyperparams_batch_size has
\* been sampled from a full buffer of hyperparams_buffer_size that has
\* already evicted.
C13_WitnessConfigured ==
    /\ train_pc = "advance"
    /\ last_call.op = "sample"
    /\ raised = "none"
    /\ batch_size = hyperparams_batch_size
    /\ buffer_size = hyperparams_buffer_size
    /\ Len(buffer) = buffer_size
    /\ n_added > buffer_size

\* C13, what the loop does satisfy on the code's buffer: sample never
\* raises for want of data (no ValueError and no InsufficientDataError);
\* the training fails only with the TypeError of a five-field store or of
\* a sample of batch size 0 in the separated form; and a step that was
\* stored and did not fail sampled exactly when the buffer held batch_size.
C13_FailsOnlyOnTypeError ==
    /\ [](raised \in {"none", "TypeError"})
    /\ [](train_pc = "failed" <=> raised = "TypeError")
    /\ [](raised = "TypeError" =>
             \/ last_call.op = "add_experience" /\ last_call.nargs # NumFields
             \/ last_call.op = "sample" /\ batch_size = 0)
    /\ [](last_call.op = "sample" => last_call.batch_size <= Len(buffer))
    /\ [](train_pc = "advance" =>
             (last_call.op = "sample") = (Len(buffer) >= batch_size))

\* C14: the target network's parameters are always the online network's
\* parameters of the latest hard sync (of construction before the first
\* sync); an optimization step changes the online network only; and right
\* after a hard sync the two networks are identical.
C14_TargetIsLatestSnapshot ==
    /\ [](target = synced)
    /\ [](n_syncs = 0 => target = 0)
    /\ [][online' # online =>
             (target' = target /\ online' = online + 1)]_vars
    /\ [][n_syncs' # n_syncs =>
             (target' = online' /\ online' = online)]_vars
    /\ [][target' # target => n_syncs' = n_syncs + 1]_vars

\* C14 witness: after a sync that copied trained parameters, a further
\* optimization step has moved the online network away from the target.
C14_Witness ==
    /\ n_syncs >= 1
    /\ target >= 1
    /\ online > target
    /\ train_pc = "advance"

----------------------------------------------------------------------------
(* Specifications *)

InitBuffer == BufferInit /\ SimIdle /\ TrainIdle
InitSim == SimInit /\ BufferIdle /\ TrainIdle
InitTrain ==
    \E run \in Runs : Construct(run.buffer_size) /\ SimIdle /\ TrainInit(run)

\* The replay buffer under any sequence of add_experience and sample calls.
SpecBuffer == InitBuffer /\ [][BufferNext]_vars

\* One call of plot_portfolio on any input.
SpecSim == InitSim /\ [][SimNext]_vars

\* One run of Train, for the configured hyperparameters and for small ones.
SpecTrain == InitTrain /\ [][TrainNext]_vars

====
